---- MODULE Spec2Model ----
(***************************************************************************)
(* braillefb (src/src/lib.rs): a framebuffer view that turns a row-major   *)
(* pixel slice into 2x4-dot braille chars.                                 *)
(*                                                                         *)
(* A char is modelled by its Unicode codepoint.  usize values stay far     *)
(* below 2^64 inside the bounds, so usize arithmetic is plain arithmetic;  *)
(* the u8 accumulator of get_char keeps its 8 bits.                        *)
(*                                                                         *)
(* Three specifications share the variables:                               *)
(*   SpecEnc   get_char / to_char, one action per loop iteration           *)
(*   Spec      Framebuffer::new and the accessors of a view                *)
(*   SpecIter  Iter::next on several traversals and Display::fmt           *)
(***************************************************************************)
EXTENDS Integers, Sequences, FiniteSets

VARIABLES
    call,      \* arguments of the running get_char call
    k,         \* position in BIT_OFFSETS of the running get_char loop (1..9)
    acc,       \* get_char's accumulator n, with the trace of its slice accesses
    epc,       \* "idle" | "loop" | "done" | "panic"
    eresult,   \* what the last get_char call returned
    f,         \* the Framebuffer
    status,    \* "unconstructed" | "live" | "panic"
    op,        \* the last call on the view: its name, argument and result
    iters,     \* the Iter objects: slot -> NoIter or [index, calls, last]
    fmt        \* the running Display::fmt call: its Iter and what it has written

vars == <<call, k, acc, epc, eresult, f, status, op, iters, fmt>>
encVars == <<call, k, acc, epc, eresult>>
viewVars == <<f, status, op>>
iterVars == <<iters, fmt>>

---------------------------------------------------------------------------
(* Bounds of the model *)

MaxEncWidth == 3
MaxEncHeight == 5
MaxOffset == 3
MaxWidth == 4
MaxHeight == 12
MaxIndex == 12
MaxIterWidth == 2
MaxIterHeight == 5
MaxIters == 2
MaxCalls == 6
MaxWritten == 6

\* Values an "on" pixel converts to through Into<u8> (bool gives 1, u8 gives itself)
PixelValues == {1, 2, 3, 255}
\* Bit patterns the pixel buffers are filled from, repeated every 8 pixels
EncPatterns == {0, 90, 151, 255}
ViewPatterns == {0, 165, 255}

---------------------------------------------------------------------------
(* Constants of the program *)

CHAR_WIDTH == 2
CHAR_HEIGHT == 4
U8_MODULUS == 256
BRAILLE_BASE == 10240      \* 0x2800
LINEBREAK == 10            \* '\n'

BIT_OFFSETS_swapped ==
    << <<1, 3>>, <<0, 3>>, <<1, 2>>, <<1, 1>>, <<0, 2>>, <<1, 0>>, <<0, 1>>, <<0, 0>> >>

BIT_OFFSETS ==
    << <<1, 3>>, <<0, 3>>, <<1, 2>>, <<1, 1>>, <<1, 0>>, <<0, 2>>, <<0, 1>>, <<0, 0>> >>

\* CHARS[n]: the hardcoded table, entry n being the char U+2800 + n
CHARS(n) == BRAILLE_BASE + n

---------------------------------------------------------------------------
(* u8 arithmetic *)

RECURSIVE BitOr(_, _)
BitOr(a, b) ==
    IF a = 0 THEN b
    ELSE IF b = 0 THEN a
    ELSE (IF a % 2 = 1 \/ b % 2 = 1 THEN 1 ELSE 0) + 2 * BitOr(a \div 2, b \div 2)

\* n <<= 1 on a u8: the top bit is shifted out
Shl1(n) == (n * 2) % U8_MODULUS

RECURSIVE Pow2(_)
Pow2(e) == IF e = 0 THEN 1 ELSE 2 * Pow2(e - 1)

Bit(n, i) == (n \div Pow2(i)) % 2

---------------------------------------------------------------------------
(* Pixel buffers: a slice is a function on 0..len-1 *)

SliceLen(s) == Cardinality(DOMAIN s)

\* The slice of length n whose pixel i is "on" (value v) iff bit i % 8 of pat is set
PatternBuffer(n, pat, v) ==
    [i \in 0..(n - 1) |-> IF Bit(pat, i % 8) = 1 THEN v ELSE 0]

---------------------------------------------------------------------------
(* get_char *)

OutOfRange_gt(xx, yy, width, height) == xx > width \/ yy > height

\* if xx >= width || yy >= height { continue; }
OutOfRange(xx, yy, width, height) == xx >= width \/ yy >= height

NoRead == [at |-> "skipped"]

\* One iteration of `for (x, y) in BIT_OFFSETS`, on dot BIT_OFFSETS[i]
GetCharIteration(a, i, framebuffer, x_offset, y_offset, width, height) ==
    LET x  == BIT_OFFSETS[i][1]
        y  == BIT_OFFSETS[i][2]
        n  == Shl1(a.n)
        xx == x_offset + x
        yy == y_offset + y
        ix == xx + yy * width
    IN  IF OutOfRange(xx, yy, width, height)
        THEN [a EXCEPT !.n = n, !.reads = Append(@, NoRead)]
        ELSE IF ix \notin DOMAIN framebuffer
        THEN [a EXCEPT !.n = n, !.panicked = TRUE,
                       !.reads = Append(@, [at |-> "read", ix |-> ix, value |-> 0])]
        ELSE [a EXCEPT !.n = BitOr(n, framebuffer[ix]),
                       !.reads = Append(@, [at |-> "read", ix |-> ix,
                                            value |-> framebuffer[ix]])]

AccInit == [n |-> 0, panicked |-> FALSE, reads |-> <<>>]

RECURSIVE GetCharLoop(_, _, _, _, _, _, _)
GetCharLoop(a, i, framebuffer, x_offset, y_offset, width, height) ==
    IF i > Len(BIT_OFFSETS) \/ a.panicked THEN a
    ELSE GetCharLoop(
             GetCharIteration(a, i, framebuffer, x_offset, y_offset, width, height),
             i + 1, framebuffer, x_offset, y_offset, width, height)

Panic == [kind |-> "panic"]
Char(c) == [kind |-> "char", c |-> c]

\* get_char as a function of its arguments: &CHARS[n as usize], or the slice
\* index panic
get_char(framebuffer, x_offset, y_offset, width, height) ==
    LET a == GetCharLoop(AccInit, 1, framebuffer, x_offset, y_offset, width, height)
    IN  IF a.panicked THEN Panic ELSE Char(CHARS(a.n))

\* to_char(f: [T; 8])
to_char(pixels) == get_char(pixels, 0, 0, CHAR_WIDTH, CHAR_HEIGHT)

NoCall == [framebuffer |-> <<>>, x_offset |-> 0, y_offset |-> 0,
           width |-> 0, height |-> 0]
NoResult == [kind |-> "none"]

EncIdle ==
    /\ call = NoCall
    /\ k = 1
    /\ acc = AccInit
    /\ epc = "idle"
    /\ eresult = NoResult

\* to_char enters get_char on a [T; 8]
ToChar ==
    /\ epc = "idle"
    /\ \E pat \in 0..255, v \in PixelValues :
          call' = [framebuffer |-> PatternBuffer(CHAR_WIDTH * CHAR_HEIGHT, pat, v),
                   x_offset |-> 0, y_offset |-> 0,
                   width |-> CHAR_WIDTH, height |-> CHAR_HEIGHT]
    /\ k' = 1
    /\ acc' = AccInit
    /\ epc' = "loop"
    /\ eresult' = NoResult
    /\ UNCHANGED <<viewVars, iterVars>>

\* get_char entered with any slice of width * height pixels and any offsets
GetCharCall ==
    /\ epc = "idle"
    /\ \E w \in 0..MaxEncWidth, h \in 0..MaxEncHeight,
          xo \in 0..MaxOffset, yo \in 0..(MaxOffset + 2),
          pat \in EncPatterns, v \in PixelValues :
          call' = [framebuffer |-> PatternBuffer(w * h, pat, v),
                   x_offset |-> xo, y_offset |-> yo, width |-> w, height |-> h]
    /\ k' = 1
    /\ acc' = AccInit
    /\ epc' = "loop"
    /\ eresult' = NoResult
    /\ UNCHANGED <<viewVars, iterVars>>

GetCharStep ==
    /\ epc = "loop"
    /\ k <= Len(BIT_OFFSETS)
    /\ acc' = GetCharIteration(acc, k, call.framebuffer, call.x_offset,
                               call.y_offset, call.width, call.height)
    /\ k' = k + 1
    /\ epc' = IF acc'.panicked THEN "panic" ELSE "loop"
    /\ eresult' = IF acc'.panicked THEN Panic ELSE eresult
    /\ UNCHANGED <<call, viewVars, iterVars>>

GetCharReturn ==
    /\ epc = "loop"
    /\ k > Len(BIT_OFFSETS)
    /\ eresult' = Char(CHARS(acc.n))
    /\ epc' = "done"
    /\ UNCHANGED <<call, k, acc, viewVars, iterVars>>

---------------------------------------------------------------------------
(* Framebuffer *)

NoView == [framebuffer |-> <<>>, width |-> 0, height |-> 0,
           x_chars_count |-> 0, y_chars_count |-> 0]
NoOp == [name |-> "none"]
NoIter == [live |-> FALSE]
NoFmt == [pc |-> "idle"]

ViewIdle ==
    /\ f = NoView
    /\ status = "unconstructed"
    /\ op = NoOp

IterIdle ==
    /\ iters = [s \in 1..MaxIters |-> NoIter]
    /\ fmt = NoFmt

InitEnc == EncIdle /\ ViewIdle /\ IterIdle

NextEnc == ToChar \/ GetCharCall \/ GetCharStep \/ GetCharReturn

SpecEnc == InitEnc /\ [][NextEnc]_vars

---------------------------------------------------------------------------
(* Framebuffer::new and the accessors *)

round_up_floor(input, multiple) == ((input + multiple) \div multiple) * multiple

\* fn round_up, local to Framebuffer::new
round_up(input, multiple) == ((input + multiple - 1) \div multiple) * multiple

\* Framebuffer::new past its assert_eq!
new(framebuffer, width, height) ==
    [framebuffer   |-> framebuffer,
     width         |-> width,
     height        |-> height,
     x_chars_count |-> (round_up(width, CHAR_WIDTH) \div CHAR_WIDTH) + 1,
     y_chars_count |-> round_up(height, CHAR_HEIGHT) \div CHAR_HEIGHT]

\* enum Offsets
OffsetsChar(x, y) == [kind |-> "Char", x |-> x, y |-> y]
OffsetsLinebreak == [kind |-> "Linebreak"]
OffsetsEnd == [kind |-> "End"]

\* Option<char>
Some(c) == [kind |-> "Some", c |-> c]
None == [kind |-> "None"]

offsets_no_plus_one(self, index) ==
    IF index > 0 /\ index % self.x_chars_count = 0
    THEN OffsetsLinebreak
    ELSE LET rows     == index \div self.x_chars_count
             y_offset == rows * CHAR_HEIGHT
         IN  IF y_offset >= self.height
             THEN OffsetsEnd
             ELSE OffsetsChar((index % self.x_chars_count) * CHAR_WIDTH, y_offset)

offsets_end_gt(self, index) ==
    IF index > 0 /\ (index + 1) % self.x_chars_count = 0
    THEN OffsetsLinebreak
    ELSE LET rows     == index \div self.x_chars_count
             y_offset == rows * CHAR_HEIGHT
         IN  IF y_offset > self.height
             THEN OffsetsEnd
             ELSE OffsetsChar((index % self.x_chars_count) * CHAR_WIDTH, y_offset)

\* Framebuffer::offsets
offsets(self, index) ==
    IF index > 0 /\ (index + 1) % self.x_chars_count = 0
    THEN OffsetsLinebreak
    ELSE LET rows     == index \div self.x_chars_count
             y_offset == rows * CHAR_HEIGHT
         IN  IF y_offset >= self.height
             THEN OffsetsEnd
             ELSE LET cols     == index % self.x_chars_count
                      x_offset == cols * CHAR_WIDTH
                  IN  OffsetsChar(x_offset, y_offset)

\* Framebuffer::get_inner (get copies what it returns); a panic of get_char
\* passes through
get_inner(self, index) ==
    LET o == offsets(self, index)
    IN  CASE o.kind = "Char" ->
                LET c == get_char(self.framebuffer, o.x, o.y, self.width, self.height)
                IN  IF c = Panic THEN Panic ELSE Some(c.c)
          [] o.kind = "Linebreak" -> Some(LINEBREAK)
          [] o.kind = "End" -> None

get(self, index) == get_inner(self, index)

len(self) == self.y_chars_count * self.x_chars_count

is_empty(self) == SliceLen(self.framebuffer) = 0

\* The panic of Index::index, with the two numbers of its message
IndexPanic(length, index) == [kind |-> "panic", len |-> length, index |-> index]

\* impl Index<usize>: get_inner(index).unwrap_or_else(|| panic!(...))
index_op(self, index) ==
    LET r == get_inner(self, index)
    IN  IF r = None THEN IndexPanic(len(self), index) ELSE r

\* Framebuffer::new: the assert_eq! on the slice length, then the view
New ==
    /\ status = "unconstructed"
    /\ \E width \in 0..MaxWidth, height \in 0..MaxHeight,
          n \in 0..(MaxWidth * MaxHeight), pat \in ViewPatterns :
          LET framebuffer == PatternBuffer(n, pat, 1)
          IN  IF SliceLen(framebuffer) = width * height
              THEN /\ f' = new(framebuffer, width, height)
                   /\ status' = "live"
                   /\ op' = [name |-> "new"]
              ELSE /\ f' = f
                   /\ status' = "panic"
                   /\ op' = [name |-> "new"]
    /\ UNCHANGED <<encVars, iterVars>>

Get ==
    /\ status = "live"
    /\ \E index \in 0..MaxIndex :
          op' = [name |-> "get", index |-> index, res |-> get(f, index)]
    /\ UNCHANGED <<f, status, encVars, iterVars>>

\* f[index]: a panic unwinds the caller
Index ==
    /\ status = "live"
    /\ \E index \in 0..MaxIndex :
          /\ op' = [name |-> "index", index |-> index, res |-> index_op(f, index)]
          /\ status' = IF op'.res.kind = "panic" THEN "panic" ELSE status
    /\ UNCHANGED <<f, encVars, iterVars>>

OffsetsOp ==
    /\ status = "live"
    /\ \E index \in 0..MaxIndex :
          op' = [name |-> "offsets", index |-> index, res |-> offsets(f, index)]
    /\ UNCHANGED <<f, status, encVars, iterVars>>

XCharsCount ==
    /\ status = "live"
    /\ op' = [name |-> "x_chars_count", res |-> f.x_chars_count]
    /\ UNCHANGED <<f, status, encVars, iterVars>>

YCharsCount ==
    /\ status = "live"
    /\ op' = [name |-> "y_chars_count", res |-> f.y_chars_count]
    /\ UNCHANGED <<f, status, encVars, iterVars>>

Length ==
    /\ status = "live"
    /\ op' = [name |-> "len", res |-> len(f)]
    /\ UNCHANGED <<f, status, encVars, iterVars>>

IsEmpty ==
    /\ status = "live"
    /\ op' = [name |-> "is_empty", res |-> is_empty(f)]
    /\ UNCHANGED <<f, status, encVars, iterVars>>

Init == EncIdle /\ ViewIdle /\ IterIdle

Next ==
    \/ New
    \/ Get
    \/ Index
    \/ OffsetsOp
    \/ XCharsCount
    \/ YCharsCount
    \/ Length
    \/ IsEmpty

Spec == Init /\ [][Next]_vars

---------------------------------------------------------------------------
(* Iter and Display *)

\* IntoIterator::into_iter for &Framebuffer
into_iter == [index |-> 0]

\* Iter::next: the Iter afterwards and the item returned
next(self, inner) ==
    LET o == offsets(inner, self.index)
    IN  CASE o.kind = "Char" ->
                LET c == get_char(inner.framebuffer, o.x, o.y, inner.width, inner.height)
                IN  [iter |-> [self EXCEPT !.index = @ + 1],
                     item |-> IF c = Panic THEN Panic ELSE Some(c.c)]
          [] o.kind = "Linebreak" ->
                [iter |-> [self EXCEPT !.index = @ + 1], item |-> Some(LINEBREAK)]
          [] o.kind = "End" ->
                [iter |-> self, item |-> None]

\* The views traversed: any width and height, the slice of width * height pixels
IterViews ==
    { new(PatternBuffer(width * height, pat, 1), width, height) :
        width \in 0..MaxIterWidth, height \in 0..MaxIterHeight, pat \in ViewPatterns }

InitIter ==
    /\ EncIdle
    /\ f \in IterViews
    /\ status = "live"
    /\ op = [name |-> "new"]
    /\ iters = [s \in 1..MaxIters |-> NoIter]
    /\ fmt = [pc |-> "idle", texts |-> {}]

\* A traversal is started; the Iter that was in the slot is dropped.
\* calls and last record the number of next() calls on it and the last item
IntoIter(s) ==
    /\ iters' = [iters EXCEPT ![s] =
                    [live |-> TRUE, iter |-> into_iter, calls |-> 0, last |-> NoResult]]
    /\ UNCHANGED <<fmt, encVars, viewVars>>

IterNext(s) ==
    /\ iters[s].live
    /\ iters[s].calls < MaxCalls
    /\ LET r == next(iters[s].iter, f)
       IN  iters' = [iters EXCEPT ![s] =
                        [live |-> TRUE, iter |-> r.iter, calls |-> @.calls + 1,
                         last |-> r.item]]
    /\ UNCHANGED <<fmt, encVars, viewVars>>

\* Display::fmt is entered (to_string writes into a String, which never fails):
\* `for c in self` takes a new Iter
FmtStart ==
    /\ fmt.pc \in {"idle", "done"}
    /\ fmt' = [pc |-> "loop", iter |-> into_iter, written |-> <<>>, texts |-> fmt.texts]
    /\ UNCHANGED <<iters, encVars, viewVars>>

\* One round of the for loop: next(), then write!(f, "{}", c) or Ok(())
FmtStep ==
    /\ fmt.pc = "loop"
    /\ Len(fmt.written) < MaxWritten
    /\ LET r == next(fmt.iter, f)
       IN  IF r.item.kind = "Some"
           THEN fmt' = [fmt EXCEPT !.iter = r.iter, !.written = Append(@, r.item.c)]
           ELSE fmt' = [fmt EXCEPT !.pc = "done", !.texts = @ \cup {fmt.written}]
    /\ UNCHANGED <<iters, encVars, viewVars>>

NextIter ==
    \/ \E s \in 1..MaxIters : IntoIter(s)
    \/ \E s \in 1..MaxIters : IterNext(s)
    \/ FmtStart
    \/ FmtStep

SpecIter == InitIter /\ [][NextIter]_vars

---------------------------------------------------------------------------
(* Claims about get_char / to_char, checked under SpecEnc *)

\* Local offsets (dx, dy) of braille dots 1..8
DotOffset ==
    << <<0, 0>>, <<0, 1>>, <<0, 2>>, <<1, 0>>, <<1, 1>>, <<1, 2>>, <<0, 3>>, <<1, 3>> >>

DotX(d) == call.x_offset + DotOffset[d][1]
DotY(d) == call.y_offset + DotOffset[d][2]
DotInBounds(d) == DotX(d) < call.width /\ DotY(d) < call.height
DotPixel(d) == call.framebuffer[DotX(d) + DotY(d) * call.width]

RECURSIVE DotMask(_)
DotMask(d) == IF d = 0 THEN 0 ELSE Pow2(d - 1) * DotPixel(d) + DotMask(d - 1)

BlockIsBinary ==
    \A d \in 1..8 : DotInBounds(d) /\ DotPixel(d) \in {0, 1}

\* C1: for a 2x4 block whose 8 pixels are all in bounds and each 0 or 1, the
\* encoder returns the char U+2800 + mask, bit d-1 of mask being the pixel of dot d.
C1_BitOrder ==
    (epc = "done" /\ BlockIsBinary) => eresult = Char(10240 + DotMask(8))

\* The block of tests::test_to_char, [1,0, 1,1, 1,0, 0,1], encoded to U+2897
C1_Witness ==
    /\ epc = "done"
    /\ BlockIsBinary
    /\ call.width = 2 /\ call.height = 4
    /\ \A i \in 0..7 : call.framebuffer[i] = <<1, 0, 1, 1, 1, 0, 0, 1>>[i + 1]
    /\ eresult = Char(10240 + 151)

Coerced(framebuffer) ==
    [i \in DOMAIN framebuffer |-> IF framebuffer[i] # 0 THEN 1 ELSE 0]

\* C2: the char returned for a buffer is the char returned for the same buffer
\* with every pixel replaced by 1 if it is non-zero and by 0 otherwise.
C2_PixelsCoerced ==
    epc = "done" =>
        eresult = get_char(Coerced(call.framebuffer), call.x_offset, call.y_offset,
                           call.width, call.height)

ReadValue(r) == IF r = NoRead THEN 0 ELSE r.value

RECURSIVE MaskOfReads(_)
MaskOfReads(reads) ==
    IF reads = <<>> THEN 0
    ELSE BitOr(Shl1(MaskOfReads(SubSeq(reads, 1, Len(reads) - 1))),
               ReadValue(reads[Len(reads)]))

\* C3: get_char never indexes the slice outside 0..width*height-1: the j-th dot
\* it visits (dot 9-j) is skipped and contributes 0 when its coordinate has
\* x >= width or y >= height, and is otherwise read at x + y*width < width*height.
C3_NoOutOfBoundsRead ==
    /\ epc # "panic"
    /\ ~acc.panicked
    /\ \A j \in 1..Len(acc.reads) :
          LET d == 9 - j
              r == acc.reads[j]
          IN  IF DotX(d) >= call.width \/ DotY(d) >= call.height
              THEN r = NoRead
              ELSE /\ r # NoRead
                   /\ r.ix = DotX(d) + DotY(d) * call.width
                   /\ r.ix \in 0..(call.width * call.height - 1)
                   /\ r.ix \in DOMAIN call.framebuffer
    /\ acc.n = MaskOfReads(acc.reads)
    /\ (epc = "done" /\ \A i \in DOMAIN call.framebuffer : call.framebuffer[i] \in {0, 1})
          => \A d \in 1..8 : ~DotInBounds(d) => Bit(eresult.c - 10240, d - 1) = 0

\* A block overhanging the right and bottom edges of a 3x5 buffer
\* (tests::test_get_char): dot 1 is read, the other seven are skipped
C3_Witness ==
    /\ epc = "done"
    /\ call.width = 3 /\ call.height = 5
    /\ call.x_offset = 2 /\ call.y_offset = 4
    /\ acc.reads[8] = [at |-> "read", ix |-> 14, value |-> 1]
    /\ \A j \in 1..7 : acc.reads[j] = NoRead
    /\ eresult = Char(10240 + 1)

---------------------------------------------------------------------------
(* Claims about the view, checked under Spec *)

\* ceil(a / b)
CeilDiv(a, b) == CHOOSE q \in 0..a : q * b >= a /\ (q = 0 \/ (q - 1) * b < a)

CharsPerRow == CeilDiv(f.width, 2) + 1
CharRows == CeilDiv(f.height, 4)

IsLinebreakPosition(index) == index > 0 /\ (index + 1) % CharsPerRow = 0

IsBraille(c) == c \in 10240..(10240 + 255)

\* C4: at every index at or past len() the view has no element: get returns
\* None, and view[index] panics, reporting the length and the index.
C4_PastEndHasNoElement ==
    /\ (op.name = "get" /\ op.index >= len(f)) => op.res = None
    /\ (op.name = "index" /\ op.index >= len(f))
          => op.res = IndexPanic(len(f), op.index)

C9_CharCounts ==
    status = "live" =>
        /\ f.x_chars_count = CharsPerRow
        /\ f.y_chars_count = CharRows
        /\ op.name = "x_chars_count" => op.res = CharsPerRow
        /\ op.name = "y_chars_count" => op.res = CharRows
        /\ op.name = "len" => op.res = CharRows * CharsPerRow
        /\ (<<f.width, f.height>> \in {<<4, 8>>, <<3, 5>>})
              => /\ f.x_chars_count = 3
                 /\ f.y_chars_count = 2
                 /\ op.name = "len" => op.res = 6
        /\ (<<f.width, f.height>> = <<2, 4>>)
              => /\ f.x_chars_count = 2
                 /\ f.y_chars_count = 1
                 /\ op.name = "len" => op.res = 2

\* tests::len: a 3x5 view has length 6
C9_Witness ==
    /\ status = "live"
    /\ op.name = "len"
    /\ f.width = 3 /\ f.height = 5
    /\ f.x_chars_count = 3 /\ f.y_chars_count = 2
    /\ op.res = 6

IsBlockMultiple(self) ==
    /\ self.width >= 2 /\ self.width % 2 = 0
    /\ self.height >= 4 /\ self.height % 4 = 0

\* The view one pixel narrower and one pixel shorter than self
Narrower(self) ==
    new(PatternBuffer((self.width - 1) * (self.height - 1), 0, 1),
        self.width - 1, self.height - 1)

\* C10: at an index that is no linebreak position, offsets(index) is End exactly
\* when (index div charsPerRow) * 4 >= height and is otherwise
\* Char((index mod charsPerRow) * 2, (index div charsPerRow) * 4); a view of
\* whole 2x4 blocks and the view one pixel narrower and shorter give the same.
C10_Offsets ==
    (op.name = "offsets" /\ ~IsLinebreakPosition(op.index)) =>
        LET row == op.index \div CharsPerRow
            col == op.index % CharsPerRow
        IN  /\ (op.res = OffsetsEnd) <=> (row * 4 >= f.height)
            /\ (row * 4 < f.height) => op.res = OffsetsChar(col * 2, row * 4)
            /\ IsBlockMultiple(f) => offsets(Narrower(f), op.index) = op.res

\* tests::offsets: offsets(9) of a 4x12 view is End, as it is at 3x11
C10_Witness ==
    /\ op.name = "offsets"
    /\ f.width = 4 /\ f.height = 12
    /\ op.index = 9
    /\ op.res = OffsetsEnd
    /\ offsets(Narrower(f), 9) = OffsetsEnd

---------------------------------------------------------------------------
(* Claims about traversals and rendering, checked under SpecIter *)

LiveIters == {s \in 1..MaxIters : iters[s].live}

\* C5: a fresh traversal yields exactly len() chars and then signals the end:
\* no next() yields a char past the len()-th, and every call after the len()-th
\* returns None.
C5_TraversalFinite ==
    \A s \in LiveIters :
        /\ iters[s].iter.index <= len(f)
        /\ iters[s].calls > len(f) => iters[s].last = None
        /\ iters[s].last = None => iters[s].iter.index = len(f)

\* C7: the text Display writes is the concatenation of get(index) for index in
\* 0..len()-1, each of them a char.
C7_RenderIsGetConcat ==
    /\ \A i \in 0..(len(f) - 1) : get(f, i).kind = "Some"
    /\ fmt.pc \in {"loop", "done"} =>
          /\ Len(fmt.written) <= len(f)
          /\ \A i \in 1..Len(fmt.written) : get(f, i - 1) = Some(fmt.written[i])
          /\ fmt.pc = "done" => Len(fmt.written) = len(f)

\* C8: under any interleaving the k-th next() of each traversal returns get(k-1)
\* of the view, and every completed rendering gives the same text.
C8_TraversalsIndependent ==
    /\ \A s \in LiveIters :
          iters[s].calls >= 1 => iters[s].last = get(f, iters[s].calls - 1)
    /\ Cardinality(fmt.texts) <= 1

---------------------------------------------------------------------------
(* Claim about is_empty, checked under Spec *)

\* C11: is_empty() and len() agree: is_empty() returns true if and only if
\* len() is 0, that is, if and only if the view has no char at index 0.
C11_IsEmptyAgreesWithLen ==
    op.name = "is_empty" =>
        /\ op.res <=> (len(f) = 0)
        /\ op.res <=> (get(f, 0) = None)

====
